---------------------------- MODULE Spec2Model ----------------------------
(***************************************************************************)
(* A model of the retrieval engine of nim-chat (microservices-rag):        *)
(*   - the FAISS index manager (vector-store-service, faiss_manager.py)    *)
(*     and its router (routers/vector_search.py),                          *)
(*   - the in-memory vector store (vector-store-service, main.py),         *)
(*   - the chunk store (text-processing-service, chunk_manager.py),        *)
(*   - the RAG pipeline (llm-service, rag_pipeline.py and main.py).        *)
(*                                                                         *)
(* Coroutines are modelled as tasks that advance from one await to the     *)
(* next; the code between two awaits is one atomic step.  Numbers are      *)
(* fixed-point: a float x is the integer x * Unit for vector components    *)
(* and x * Unit * Unit for scores and thresholds.                          *)
(***************************************************************************)
EXTENDS Integers, Sequences, FiniteSets, TLC

\* ------------------------------------------------------------------ bounds
\* Fixed-point resolution of a vector component (1.0 is Unit).
Unit == 10
\* The dimension every stored vector is coerced to (384 in the code).
ExpectedDim == 2
\* Number of requests the storage services accept in one run.
MaxRequests == 2

\* ------------------------------------------------------------ small helpers
Range(s) == {s[i] : i \in DOMAIN s}

Min2(a, b) == IF a <= b THEN a ELSE b

Max2(a, b) == IF a >= b THEN a ELSE b

RECURSIVE SumSeq(_)
SumSeq(s) == IF s = <<>> THEN 0 ELSE Head(s) + SumSeq(Tail(s))

\* floor of the square root of n >= 0
ISqrt(n) == CHOOSE r \in 0..n : r * r <= n /\ (r + 1) * (r + 1) > n

\* ------------------------------------------------------------- vector math
\* numpy dot of two arrays of one length
Dot(a, b) == SumSeq([i \in 1..Len(a) |-> a[i] * b[i]])

\* squared euclidean distance, what IndexFlatL2 reports
L2Sqr(a, b) == SumSeq([i \in 1..Len(a) |-> (a[i] - b[i]) * (a[i] - b[i])])

\* faiss.normalize_L2 on one row: a zero row is left as it is
normalize_L2(v) ==
    LET n == ISqrt(Dot(v, v))
    IN  IF n = 0 THEN v ELSE [i \in 1..Len(v) |-> (v[i] * Unit) \div n]

\* create_index, the dimension coercion: pad with zeros or cut to ExpectedDim
CoerceDim(v) ==
    [i \in 1..ExpectedDim |-> IF i <= Len(v) THEN v[i] ELSE 0]


\* ------------------------------------------------------- results and errors
\* What a call hands to its caller: a value, or an exception of class `kind`
\* with step tag `step`; `cause` is the class of the exception it wraps.
Ok(v) == [ok |-> TRUE, kind |-> "none", step |-> "none", cause |-> "none", value |-> v]

Err(kind, step, cause) ==
    [ok |-> FALSE, kind |-> kind, step |-> step, cause |-> cause, value |-> <<>>]

NoResult == [ok |-> FALSE, kind |-> "pending", step |-> "none", cause |-> "none", value |-> <<>>]

\* ---------------------------------------------------------- the FAISS index
\* VectorStoreConfig as the code reads it
VectorStoreConfig(index_type, metric_type, nlist, normalize_vectors) ==
    [index_type |-> index_type, metric_type |-> metric_type, nlist |-> nlist,
     normalize_vectors |-> normalize_vectors]

\* the cluster count _create_faiss_index asks IndexIVFFlat for
AdjustedNlist(n_vectors, config) == Min2(config.nlist, Max2(1, n_vectors \div 4))

\* _create_faiss_index: the (empty) index object for a batch of n_vectors rows
create_faiss_index(n_vectors, config) ==
    LET flat == [kind |-> "Flat", metric |-> config.metric_type, nlist |-> 0, vecs |-> <<>>]
        nlist == AdjustedNlist(n_vectors, config)
    IN  IF config.index_type = "Flat" THEN flat
        ELSE IF config.index_type = "IVFFlat"
             THEN IF n_vectors >= nlist
                  THEN [kind |-> "IVFFlat", metric |-> config.metric_type,
                        nlist |-> nlist, vecs |-> <<>>]
                  ELSE flat
             ELSE flat

\* the rows create_index adds: coerced to ExpectedDim, normalized on request
PreparedVectors(vectors, config) ==
    [i \in 1..Len(vectors) |->
        IF config.normalize_vectors THEN normalize_L2(CoerceDim(vectors[i]))
        ELSE CoerceDim(vectors[i])]

\* create_index lines 127-164: the index object that is written and cached
BuiltIndex(req) ==
    [create_faiss_index(Len(req.vectors), req.config)
        EXCEPT !.vecs = PreparedVectors(req.vectors, req.config)]

ntotal(index) == Len(index.vecs)

\* the score faiss reports for one stored row: inner product, or squared distance
Score(index, q, slot) ==
    IF index.metric = "IP" THEN Dot(q, index.vecs[slot]) ELSE L2Sqr(q, index.vecs[slot])

\* slot a is reported before slot b: larger inner product or smaller distance
\* first, equal scores in slot order
Before(index, q, a, b) ==
    LET sa == Score(index, q, a)
        sb == Score(index, q, b)
    IN  \/ IF index.metric = "IP" THEN sa > sb ELSE sa < sb
        \/ sa = sb /\ a < b

\* index.search(q, k): the k best slots, best first.  An IVFFlat index of this
\* size has a single inverted list (nlist = 1 below 8 vectors), which the one
\* probe scans whole, so both kinds scan every row.
index_search(index, q, k) ==
    LET n    == ntotal(index)
        pos(s) == 1 + Cardinality({o \in 1..n : Before(index, q, o, s)})
        at(i)  == CHOOSE s \in 1..n : pos(s) = i
    IN  [i \in 1..k |-> [idx |-> at(i), score |-> Score(index, q, at(i))]]

\* a variant of the threshold test that lets every hit through
KeepHit_NoThreshold(score, similarity_threshold) == TRUE

\* lines 293-294: `if score < similarity_threshold: continue`
KeepHit(score, similarity_threshold) == ~(score < similarity_threshold)

RECURSIVE CollectHits(_, _, _, _, _)
CollectHits(hits, i, mapping_data, document_id, similarity_threshold) ==
    IF i > Len(hits) THEN <<>>
    ELSE LET h == hits[i]
             rest == CollectHits(hits, i + 1, mapping_data, document_id, similarity_threshold)
         IN  IF KeepHit(h.score, similarity_threshold)
             THEN <<[embedding_id |-> mapping_data.embedding_ids[h.idx],
                     chunk_id |-> mapping_data.chunk_ids[h.idx],
                     document_id |-> document_id,
                     similarity_score |-> h.score,
                     rank |-> i]>> \o rest
             ELSE rest

QueryArray(index, query_vector) == normalize_L2(query_vector)

\* search_vectors lines 278-308, given the loaded index and mapping:
\* the query is normalized, min(top_k, ntotal) hits are asked for, hits below
\* the threshold are skipped, ids are looked up in the mapping
search_loaded(index, mapping_data, document_id, query_vector, top_k, similarity_threshold) ==
    LET q    == QueryArray(index, query_vector)
        hits == index_search(index, q, Min2(top_k, ntotal(index)))
        kept == {i \in 1..Len(hits) : KeepHit(hits[i].score, similarity_threshold)}
    IN  IF Len(q) # ExpectedDim
          THEN Err("ProcessingError", "vector_search", "AssertionError")
        ELSE IF \E i \in kept : hits[i].idx > Len(mapping_data.embedding_ids)
                              \/ hits[i].idx > Len(mapping_data.chunk_ids)
          THEN Err("ProcessingError", "vector_search", "IndexError")
        ELSE Ok(CollectHits(hits, 1, mapping_data, document_id, similarity_threshold))


\* ------------------------------------------------- the index manager's state
Docs == {"d1", "d2"}

\* two coroutines share the event loop
Tasks == 1..2

\* A file of the storage directory: absent, created but still empty (opened
\* for writing, nothing flushed yet), or holding data.
NoFile == [state |-> "absent"]

Truncated == [state |-> "empty"]

Written(data) == [state |-> "written", data |-> data]

Exists(file) == file.state # "absent"

\* a slot of _index_cache / _metadata_cache without an entry
NotCached == [state |-> "absent"]

Cached(x) == [state |-> "cached", data |-> x]

VARIABLES
    index_files,      \* indexes_dir / "<document_id>.faiss"
    mapping_files,    \* metadata_dir / "<document_id>_mapping.pkl"
    metadata_files,   \* metadata_dir / "<document_id>_index.json"
    index_cache,      \* FAISSManagerService._index_cache
    metadata_cache,   \* FAISSManagerService._metadata_cache
    embedding_files,  \* embedding-service: the documents embeddings are stored for
    chunks_files,     \* chunks_dir / "<document_id>.json"
    chunk_metadata_files, \* metadata_dir / "<document_id>_metadata.json"
    service,          \* the service process this run exercises
    tasks,            \* the coroutines running on that service's event loop
    requests,         \* how many requests have been accepted so far
    call,             \* one call of a function of the code: arguments and result
    pipeline          \* one answer_question call of the RAG pipeline

indexVars == <<index_files, mapping_files, metadata_files, index_cache, metadata_cache>>

chunkVars == <<chunks_files, chunk_metadata_files>>

storeVars == <<indexVars, chunkVars, embedding_files>>

\* ------------------------------------------------------------ request inputs
DefaultConfig == VectorStoreConfig("IVFFlat", "IP", 100, TRUE)

FlatConfig == VectorStoreConfig("Flat", "IP", 100, TRUE)

IndexRequest(vectors, embedding_ids, chunk_ids, config) ==
    [vectors |-> vectors, embedding_ids |-> embedding_ids, chunk_ids |-> chunk_ids,
     config |-> config]

\* Build requests: every request carries embedding and chunk ids of its own.
WellFormedRequests ==
    { IndexRequest(<< <<3, 4>>, <<4, 3>> >>, <<"e1", "e2">>, <<"c1", "c2">>, DefaultConfig),
      IndexRequest(<< <<0, 5>> >>, <<"e3">>, <<"c3">>, FlatConfig) }

IllFormedRequests ==
    { IndexRequest(<< <<5, 0>>, <<0, 5>> >>, <<"e4", "e5">>, <<"c4">>, DefaultConfig),
      IndexRequest(<< <<5, 0>> >>, <<"e6", "e7">>, <<"c6">>, DefaultConfig),
      IndexRequest(<<>>, <<>>, <<>>, DefaultConfig) }

BuildRequests == WellFormedRequests \cup IllFormedRequests

WellFormed(req) ==
    /\ Len(req.vectors) > 0
    /\ Len(req.vectors) = Len(req.embedding_ids)
    /\ Len(req.embedding_ids) = Len(req.chunk_ids)

\* a query of the index's dimension along the first axis
AxisQuery == [i \in 1..ExpectedDim |-> IF i = 1 THEN Unit ELSE 0]

SearchQuery(query_vector, top_k, similarity_threshold) ==
    [query_vector |-> query_vector, top_k |-> top_k,
     similarity_threshold |-> similarity_threshold]

SearchRequests == { SearchQuery(AxisQuery, 2, 0) }

SimilarityRequest(document_ids, query_vector, top_k, similarity_threshold) ==
    [document_ids |-> document_ids, query_vector |-> query_vector, top_k |-> top_k,
     similarity_threshold |-> similarity_threshold]

SimilarityRequests ==
    { SimilarityRequest(ids, AxisQuery, 1, 0) : ids \in {<<>>, <<"d1", "d2">>} }

\* ------------------------------------------------------------------- tasks
NoIndex == [kind |-> "none"]

IdleTask ==
    [id |-> 0, op |-> "idle", pc |-> "idle", doc |-> "d1", req |-> [none |-> TRUE],
     index |-> NoIndex, cached |-> FALSE, orphan |-> FALSE,
     docs |-> <<>>, acc |-> <<>>, result |-> NoResult]

\* the record of a coroutine that starts now: it carries its request's number
NewTask(op, d, req) ==
    [IdleTask EXCEPT !.id = requests + 1, !.op = op, !.doc = d, !.req = req]

InProgress(t) == tasks[t].pc \notin {"idle", "done"}

\* The index manager runs in vector-store-service and the chunk store in
\* text-processing-service: two processes with an event loop each, sharing no
\* state.  A run exercises one of them.
Services == {"vector-store-service", "text-processing-service"}

\* a slot of service `svc` whose coroutine has returned takes a new request
\* while the run's budget lasts
Accept(t, svc) ==
    /\ service = svc
    /\ tasks[t].pc \in {"idle", "done"}
    /\ requests < MaxRequests
    /\ requests' = requests + 1
    /\ UNCHANGED <<service, call, pipeline, embedding_files>>

\* a coroutine waiting at `pc` of operation `op` is resumed
Resume(t, op, pcs) ==
    /\ tasks[t].op = op
    /\ tasks[t].pc \in pcs
    /\ UNCHANGED <<requests, service, call, pipeline, embedding_files>>

\* a finished coroutine keeps its arguments and its outcome, nothing else
Finish(task, result) ==
    [IdleTask EXCEPT !.id = task.id, !.op = task.op, !.doc = task.doc, !.req = task.req,
                     !.pc = "done", !.result = result]

\* unlink of a file some writer still holds open: the writer's later writes go
\* to the unlinked inode and never show under the path again
OrphanWriters(ts, d, pcs) ==
    [t \in Tasks |->
        IF ts[t].op = "create_index" /\ ts[t].doc = d /\ ts[t].pc \in pcs
        THEN [ts[t] EXCEPT !.orphan = TRUE] ELSE ts[t]]


\* --------------------------------------------------------------- create_index
\* line 114: the chained comparison a != b != c is (a != b) and (b != c)
create_index_rejects(req) ==
    \/ Len(req.vectors) = 0
    \/ /\ Len(req.vectors) # Len(req.embedding_ids)
       /\ Len(req.embedding_ids) # Len(req.chunk_ids)

\* lines 171-174
MappingData(req) == [embedding_ids |-> req.embedding_ids, chunk_ids |-> req.chunk_ids]

\* lines 183-193 (the time stamps and the size are left out)
IndexMetadata(d, req) ==
    [document_id |-> d, total_vectors |-> Len(req.vectors), dimension |-> ExpectedDim,
     index_type |-> req.config.index_type, metric_type |-> req.config.metric_type]

\* lines 206-216
IndexSummary(d, req) == [document_id |-> d, indexed_count |-> Len(req.vectors)]

\* a variant of the cleanup that forgets the mapping file
CleanupFiles_NoMapping(d) == {"index", "metadata"}

\* lines 218-226: the except branch unlinks whichever of the three files exist
CleanupFiles(d) == {"index", "metadata", "mapping"}

\* the except branch of create_index as a whole: cleanup, then the error;
\* `started` is the coroutine's record when the exception is raised
create_index_fails(t, started, cause) ==
    LET d == started.doc
        gone == CleanupFiles(d)
    IN  /\ index_files' = IF "index" \in gone THEN [index_files EXCEPT ![d] = NoFile]
                          ELSE index_files
        /\ mapping_files' = IF "mapping" \in gone THEN [mapping_files EXCEPT ![d] = NoFile]
                            ELSE mapping_files
        /\ metadata_files' = IF "metadata" \in gone THEN [metadata_files EXCEPT ![d] = NoFile]
                             ELSE metadata_files
        /\ tasks' = [OrphanWriters(tasks, d,
                        (IF "mapping" \in gone THEN {"write_mapping"} ELSE {})
                        \cup (IF "metadata" \in gone THEN {"write_metadata"} ELSE {}))
                     EXCEPT ![t] = Finish(started,
                                     Err("ProcessingError", "index_creation", cause))]
        /\ UNCHANGED <<index_cache, metadata_cache, chunkVars>>

\* lines 114-168: the length check, the index built in memory and written with
\* faiss.write_index; the coroutine then waits for the mapping file to open
BuildStart(t, d, req) ==
    /\ Accept(t, "vector-store-service")
    /\ IF create_index_rejects(req)
       THEN /\ tasks' = [tasks EXCEPT ![t] =
                   Finish(NewTask("create_index", d, req),
                          Err("ProcessingError", "index_creation", "none"))]
            /\ UNCHANGED storeVars
       ELSE /\ index_files' = [index_files EXCEPT ![d] = Written(BuiltIndex(req))]
            /\ tasks' = [tasks EXCEPT ![t] =
                   [NewTask("create_index", d, req) EXCEPT !.pc = "open_mapping"]]
            /\ UNCHANGED <<mapping_files, metadata_files, index_cache, metadata_cache, chunkVars>>

\* line 176: aiofiles.open(mapping_file, 'wb') creates or truncates the file
BuildOpenMapping(t) ==
    /\ Resume(t, "create_index", {"open_mapping"})
    /\ mapping_files' = [mapping_files EXCEPT ![tasks[t].doc] = Truncated]
    /\ tasks' = [tasks EXCEPT ![t].pc = "write_mapping", ![t].orphan = FALSE]
    /\ UNCHANGED <<index_files, metadata_files, index_cache, metadata_cache, chunkVars>>

\* line 177 and the close of the file: the pickled mapping reaches the file.
\* The coroutine resumes and runs lines 180-194 in the same turn:
\* index_file.stat() raises when the index file is gone; otherwise the open
\* of the metadata file is handed to a worker thread and the coroutine waits
BuildWriteMapping(t) ==
    /\ Resume(t, "create_index", {"write_mapping"})
    /\ IF ~Exists(index_files[tasks[t].doc])
       THEN create_index_fails(t, tasks[t], "FileNotFoundError")
       ELSE /\ mapping_files' = IF tasks[t].orphan THEN mapping_files
                                ELSE [mapping_files EXCEPT ![tasks[t].doc] =
                                         Written(MappingData(tasks[t].req))]
            /\ tasks' = [tasks EXCEPT ![t].pc = "open_metadata", ![t].orphan = FALSE]
            /\ UNCHANGED <<index_files, metadata_files, index_cache, metadata_cache, chunkVars>>

\* lines 195-196: the worker thread creates or truncates the metadata file,
\* at whatever moment it runs while other coroutines take their turns
BuildOpenMetadata(t) ==
    /\ Resume(t, "create_index", {"open_metadata"})
    /\ metadata_files' = [metadata_files EXCEPT ![tasks[t].doc] = Truncated]
    /\ tasks' = [tasks EXCEPT ![t].pc = "write_metadata", ![t].orphan = FALSE]
    /\ UNCHANGED <<index_files, mapping_files, index_cache, metadata_cache, chunkVars>>

\* line 197 and the close of the file
BuildWriteMetadata(t) ==
    /\ Resume(t, "create_index", {"write_metadata"})
    /\ metadata_files' = IF tasks[t].orphan THEN metadata_files
                         ELSE [metadata_files EXCEPT ![tasks[t].doc] =
                                  Written(IndexMetadata(tasks[t].doc, tasks[t].req))]
    /\ tasks' = [tasks EXCEPT ![t].pc = "update_cache", ![t].orphan = FALSE]
    /\ UNCHANGED <<index_files, mapping_files, index_cache, metadata_cache, chunkVars>>

\* lines 199-216: the caches take the new index, the summary is returned
BuildFinish(t) ==
    /\ Resume(t, "create_index", {"update_cache"})
    /\ index_cache' = [index_cache EXCEPT ![tasks[t].doc] = Cached(BuiltIndex(tasks[t].req))]
    /\ metadata_cache' = [metadata_cache EXCEPT ![tasks[t].doc] =
                             Cached(IndexMetadata(tasks[t].doc, tasks[t].req))]
    /\ tasks' = [tasks EXCEPT ![t] =
                    Finish(tasks[t], Ok(IndexSummary(tasks[t].doc, tasks[t].req)))]
    /\ UNCHANGED <<index_files, mapping_files, metadata_files, chunkVars>>

\* an I/O step of the try block raises (write_index, open, write or close):
\* lines 218-228
BuildIOError(t) ==
    /\ Resume(t, "create_index",
              {"open_mapping", "write_mapping", "open_metadata", "write_metadata"})
    /\ create_index_fails(t, tasks[t], "OSError")

\* faiss.write_index (line 168) raises before the first await
BuildStartFails(t, d, req) ==
    /\ Accept(t, "vector-store-service")
    /\ ~create_index_rejects(req)
    /\ create_index_fails(t, NewTask("create_index", d, req),
                          "OSError")

\* --------------------------------------------------------------- delete_index
\* a variant of the deletion that leaves the id mapping behind
UnlinkedFiles_NoMapping(d) == {"index", "metadata"}

\* lines 349-353: the paths delete_index unlinks where they exist
UnlinkedFiles(d) == {"index", "metadata", "mapping"}

\* lines 341-370; the coroutine never awaits, so it runs in one step
Delete(t, d) ==
    /\ Accept(t, "vector-store-service")
    /\ LET deleted == \/ "index" \in UnlinkedFiles(d) /\ Exists(index_files[d])
                      \/ "metadata" \in UnlinkedFiles(d) /\ Exists(metadata_files[d])
                      \/ "mapping" \in UnlinkedFiles(d) /\ Exists(mapping_files[d])
       IN  tasks' = [OrphanWriters(tasks, d, {"write_mapping", "write_metadata"})
                     EXCEPT ![t] = Finish(NewTask("delete_index", d, [none |-> TRUE]),
                                          Ok(deleted))]
    /\ index_files' =
          IF "index" \in UnlinkedFiles(d) THEN [index_files EXCEPT ![d] = NoFile]
          ELSE index_files
    /\ metadata_files' =
          IF "metadata" \in UnlinkedFiles(d) THEN [metadata_files EXCEPT ![d] = NoFile]
          ELSE metadata_files
    /\ mapping_files' =
          IF "mapping" \in UnlinkedFiles(d) THEN [mapping_files EXCEPT ![d] = NoFile]
          ELSE mapping_files
    /\ index_cache' = [index_cache EXCEPT ![d] = NotCached]
    /\ metadata_cache' = [metadata_cache EXCEPT ![d] = NotCached]
    /\ UNCHANGED chunkVars


\* --------------------------------------------------- _load_index, search_vectors
\* _load_index up to its first await (lines 233-251): a cache hit goes on to
\* read the mapping; a miss checks that both files exist and reads the index
LoadStart(d) ==
    IF index_cache[d].state = "cached"
      THEN [raise |-> FALSE, index |-> index_cache[d].data, cached |-> TRUE]
    ELSE IF ~Exists(index_files[d]) \/ ~Exists(mapping_files[d])
      THEN [raise |-> TRUE, index |-> NoIndex, cached |-> FALSE]
    ELSE [raise |-> FALSE, index |-> index_files[d].data, cached |-> FALSE]

\* search_vectors line 310-311: whatever is raised inside leaves as
\* ProcessingError("vector_search")
SearchError(cause) == Err("ProcessingError", "vector_search", cause)

\* the rest of _load_index and of search_vectors once the mapping file is read
\* (lines 238-240 or 254-260, then 278-308)
SearchRead(task, d, query_vector, top_k, similarity_threshold) ==
    IF mapping_files[d].state = "absent" THEN SearchError("FileNotFoundError")
    ELSE IF mapping_files[d].state = "empty" THEN SearchError("EOFError")
    ELSE search_loaded(task.index, mapping_files[d].data, d,
                       query_vector, top_k, similarity_threshold)

\* line 258: a miss that loaded both files caches the index it read
CacheAfterLoad(task, d) ==
    IF ~task.cached /\ mapping_files[d].state = "written"
    THEN [index_cache EXCEPT ![d] = Cached(task.index)]
    ELSE index_cache

SearchStart(t, d, q) ==
    /\ Accept(t, "vector-store-service")
    /\ LET l == LoadStart(d)
           started == [NewTask("search_vectors", d, q) EXCEPT !.index = l.index, !.cached = l.cached]
       IN  tasks' = [tasks EXCEPT ![t] =
                IF l.raise THEN Finish(started, SearchError("DocumentNotFoundError"))
                ELSE [started EXCEPT !.pc = "read_mapping"]]
    /\ UNCHANGED storeVars

SearchFinish(t) ==
    /\ Resume(t, "search_vectors", {"read_mapping"})
    /\ LET task == tasks[t]
       IN  /\ tasks' = [tasks EXCEPT ![t] =
                 Finish(task, SearchRead(task, task.doc, task.req.query_vector,
                                         task.req.top_k, task.req.similarity_threshold))]
           /\ index_cache' = CacheAfterLoad(task, task.doc)
    /\ UNCHANGED <<index_files, mapping_files, metadata_files, metadata_cache, chunkVars>>

\* routers/vector_search.py search_vectors, lines 81-129: the status the HTTP
\* caller sees for what FAISSManagerService.search_vectors did
router_search_status(result) ==
    IF result.ok THEN 200
    ELSE IF result.kind = "DocumentNotFoundError" THEN 404
    ELSE 500


\* ------------------------------------------ similarity_search (global search)
\* list.sort(key=similarity_score, reverse=True): stable, best score first
SortByScore(results) ==
    LET n == Len(results)
        pos(i) == 1 + Cardinality({j \in 1..n :
                        \/ results[j].similarity_score > results[i].similarity_score
                        \/ /\ results[j].similarity_score = results[i].similarity_score
                           /\ j < i})
    IN  [p \in 1..n |-> results[CHOOSE i \in 1..n : pos(i) = p]]

\* results[:k]
Truncate(results, k) == SubSeq(results, 1, Min2(k, Len(results)))

\* lines 170-172
MergeResults(all_results, top_k) == Truncate(SortByScore(all_results), top_k)

\* list_indexes as similarity_search uses it (lines 149-151): the documents
\* whose index metadata file parses
ListedDocs == {d \in Docs : metadata_files[d].state = "written"}

Orderings(S) ==
    {o \in [1..Cardinality(S) -> S] : \A i, j \in DOMAIN o : i # j => o[i] # o[j]}

\* lines 166-168: the only per-document failure the loop skips
SkippedBySimilarity(result) == ~result.ok /\ result.kind = "DocumentNotFoundError"

\* lines 206-208: every other failure ends the request
SimilarityFailure(cause) == Err("HTTPException", "500", cause)

\* the loop of lines 157-168 from the start of one per-document search up to
\* that search's first await: a search that raises at once is handled here
RECURSIVE SimilarityAdvance(_)
SimilarityAdvance(task) ==
    IF task.docs = <<>>
      THEN Finish(task, Ok(MergeResults(task.acc, task.req.top_k)))
    ELSE LET l == LoadStart(Head(task.docs))
             failed == SearchError("DocumentNotFoundError")
         IN  IF ~l.raise
               THEN [task EXCEPT !.pc = "sim_read_mapping", !.doc = Head(task.docs),
                                 !.index = l.index, !.cached = l.cached]
             ELSE IF SkippedBySimilarity(failed)
               THEN SimilarityAdvance([task EXCEPT !.docs = Tail(task.docs)])
             ELSE Finish(task, SimilarityFailure(failed.kind))

SimilarityStart(t, req, listed) ==
    /\ Accept(t, "vector-store-service")
    /\ tasks' = [tasks EXCEPT ![t] =
          SimilarityAdvance([NewTask("similarity_search", "d1", req) EXCEPT
               !.docs = IF req.document_ids = <<>> THEN listed ELSE req.document_ids])]
    /\ UNCHANGED storeVars

SimilarityStep(t) ==
    /\ Resume(t, "similarity_search", {"sim_read_mapping"})
    /\ LET task == tasks[t]
           found == SearchRead(task, task.doc, task.req.query_vector,
                               task.req.top_k * 2, task.req.similarity_threshold)
       IN  /\ index_cache' = CacheAfterLoad(task, task.doc)
           /\ tasks' = [tasks EXCEPT ![t] =
                 IF found.ok
                   THEN SimilarityAdvance([task EXCEPT !.docs = Tail(task.docs),
                                                        !.acc = task.acc \o found.value])
                 ELSE IF SkippedBySimilarity(found)
                   THEN SimilarityAdvance([task EXCEPT !.docs = Tail(task.docs)])
                 ELSE Finish(task, SimilarityFailure(found.kind))]
    /\ UNCHANGED <<index_files, mapping_files, metadata_files, metadata_cache, chunkVars>>

\* ------------------------------------------------------------ the chunk store
TextChunk(chunk_id, content, chunk_index) ==
    [chunk_id |-> chunk_id, content |-> content, chunk_index |-> chunk_index]

\* chunk lists handed to save_chunks
ChunkLists ==
    { << TextChunk("c1", "Paris is the capital", 0), TextChunk("c2", "of France.", 1) >>,
      << TextChunk("c3", "It is on the Seine.", 0) >> }

\* save_chunks lines 59-65 (the time stamp is left out)
ChunkMetadata(d, chunks) ==
    [document_id |-> d, total_chunks |-> Len(chunks),
     chunk_sizes |-> [i \in 1..Len(chunks) |-> Len(chunks[i].content)]]

\* save_chunks lines 73-78: the except branch unlinks both files if they exist
CleanupChunkFiles(d) == {"chunks", "chunk_metadata"}

OrphanChunkWriters(ts, d, pcs) ==
    [t \in Tasks |->
        IF ts[t].op = "save_chunks" /\ ts[t].doc = d /\ ts[t].pc \in pcs
        THEN [ts[t] EXCEPT !.orphan = TRUE] ELSE ts[t]]

\* save_chunks lines 49-55: nothing is written before the first await
SaveStart(t, d, chunks) ==
    /\ Accept(t, "text-processing-service")
    /\ tasks' = [tasks EXCEPT ![t] =
          [NewTask("save_chunks", d, [chunks |-> chunks]) EXCEPT !.pc = "open_chunks"]]
    /\ UNCHANGED storeVars

\* line 55: aiofiles.open(chunks_file, 'w') creates or truncates the file
SaveOpenChunks(t) ==
    /\ Resume(t, "save_chunks", {"open_chunks"})
    /\ chunks_files' = [chunks_files EXCEPT ![tasks[t].doc] = Truncated]
    /\ tasks' = [tasks EXCEPT ![t].pc = "write_chunks", ![t].orphan = FALSE]
    /\ UNCHANGED <<indexVars, chunk_metadata_files>>

\* line 56 and the close of the file
SaveWriteChunks(t) ==
    /\ Resume(t, "save_chunks", {"write_chunks"})
    /\ chunks_files' = IF tasks[t].orphan THEN chunks_files
                       ELSE [chunks_files EXCEPT ![tasks[t].doc] =
                                Written(tasks[t].req.chunks)]
    /\ tasks' = [tasks EXCEPT ![t].pc = "open_chunk_metadata", ![t].orphan = FALSE]
    /\ UNCHANGED <<indexVars, chunk_metadata_files>>

\* line 67
SaveOpenMetadata(t) ==
    /\ Resume(t, "save_chunks", {"open_chunk_metadata"})
    /\ chunk_metadata_files' = [chunk_metadata_files EXCEPT ![tasks[t].doc] = Truncated]
    /\ tasks' = [tasks EXCEPT ![t].pc = "write_chunk_metadata", ![t].orphan = FALSE]
    /\ UNCHANGED <<indexVars, chunks_files>>

\* lines 68-71: the metadata reaches the file and save_chunks returns True
SaveWriteMetadata(t) ==
    /\ Resume(t, "save_chunks", {"write_chunk_metadata"})
    /\ chunk_metadata_files' =
          IF tasks[t].orphan THEN chunk_metadata_files
          ELSE [chunk_metadata_files EXCEPT ![tasks[t].doc] =
                   Written(ChunkMetadata(tasks[t].doc, tasks[t].req.chunks))]
    /\ tasks' = [tasks EXCEPT ![t] = Finish(tasks[t], Ok(TRUE))]
    /\ UNCHANGED <<indexVars, chunks_files>>

\* an open, write or close of the try block raises: lines 73-80
SaveIOError(t) ==
    /\ Resume(t, "save_chunks", {"open_chunks", "write_chunks", "open_chunk_metadata",
                                 "write_chunk_metadata"})
    /\ LET d == tasks[t].doc
           gone == CleanupChunkFiles(d)
       IN  /\ chunks_files' = IF "chunks" \in gone THEN [chunks_files EXCEPT ![d] = NoFile]
                              ELSE chunks_files
           /\ chunk_metadata_files' =
                 IF "chunk_metadata" \in gone
                 THEN [chunk_metadata_files EXCEPT ![d] = NoFile]
                 ELSE chunk_metadata_files
           /\ tasks' = [OrphanChunkWriters(tasks, d,
                           (IF "chunks" \in gone THEN {"write_chunks"} ELSE {})
                           \cup (IF "chunk_metadata" \in gone
                                 THEN {"write_chunk_metadata"} ELSE {}))
                        EXCEPT ![t] = Finish(tasks[t],
                                        Err("ProcessingError", "chunk_save", "OSError"))]
    /\ UNCHANGED indexVars

\* the Python slice s[a:b] for 0 <= a and 0 <= b
PySlice(s, a, b) == SubSeq(s, Min2(a, Len(s)) + 1, Min2(b, Len(s)))

\* get_chunks lines 102-106, the pagination; `if limit:` is false for None and
\* for 0 alike, so limit 0 stands for both
get_chunks_page(chunks, limit, offset) ==
    IF limit # 0 THEN PySlice(chunks, offset, offset + limit)
    ELSE IF offset > 0 THEN PySlice(chunks, offset, Len(chunks))
    ELSE chunks

\* get_chunks lines 90-93 with limit=None, offset=0: the existence check
GetChunksStart(t, d) ==
    /\ Accept(t, "text-processing-service")
    /\ LET started == NewTask("get_chunks", d, [none |-> TRUE])
       IN  tasks' = [tasks EXCEPT ![t] =
              IF ~Exists(chunks_files[d])
              THEN Finish(started, Err("DocumentNotFoundError", "none", "none"))
              ELSE [started EXCEPT !.pc = "read_chunks"]]
    /\ UNCHANGED storeVars

\* lines 96-112: the file is read and parsed; an empty or missing file raises
GetChunksFinish(t) ==
    /\ Resume(t, "get_chunks", {"read_chunks"})
    /\ LET file == chunks_files[tasks[t].doc]
       IN  tasks' = [tasks EXCEPT ![t] = Finish(tasks[t],
              IF file.state = "written" THEN Ok(file.data)
              ELSE IF file.state = "empty"
                THEN Err("ProcessingError", "chunk_retrieval", "JSONDecodeError")
              ELSE Err("ProcessingError", "chunk_retrieval", "FileNotFoundError"))]
    /\ UNCHANGED storeVars

\* ------------------------------------------------------------ specification
\* no function call and no answer_question call is part of a storage run
NoCall == [fn |-> "none"]

NoPipeline == [pc |-> "none"]

vars == <<index_files, mapping_files, metadata_files, index_cache, metadata_cache,
          chunks_files, chunk_metadata_files, embedding_files, service, tasks, requests,
          call, pipeline>>

\* The storage directory outlives the process: a service starts on an empty
\* directory or on one that holds what an earlier run stored for d1, and with
\* empty caches.
StoredRequest == CHOOSE r \in WellFormedRequests : Len(r.vectors) = 2

StoredChunks == CHOOSE c \in ChunkLists : Len(c) = 2

Init ==
    /\ service \in Services
    /\ \E stored \in SUBSET {"d1"} :
          /\ index_files = [d \in Docs |->
                IF d \in stored THEN Written(BuiltIndex(StoredRequest)) ELSE NoFile]
          /\ mapping_files = [d \in Docs |->
                IF d \in stored THEN Written(MappingData(StoredRequest)) ELSE NoFile]
          /\ metadata_files = [d \in Docs |->
                IF d \in stored THEN Written(IndexMetadata(d, StoredRequest)) ELSE NoFile]
          /\ chunks_files = [d \in Docs |->
                IF d \in stored THEN Written(StoredChunks) ELSE NoFile]
          /\ chunk_metadata_files = [d \in Docs |->
                IF d \in stored THEN Written(ChunkMetadata(d, StoredChunks)) ELSE NoFile]
          /\ embedding_files = stored
    /\ index_cache = [d \in Docs |-> NotCached]
    /\ metadata_cache = [d \in Docs |-> NotCached]
    /\ tasks = [t \in Tasks |-> IdleTask]
    /\ requests = 0
    /\ call = NoCall
    /\ pipeline = NoPipeline

Next ==
    \E t \in Tasks :
        \/ \E d \in Docs, req \in BuildRequests : BuildStart(t, d, req)
        \/ \E d \in Docs, req \in BuildRequests : BuildStartFails(t, d, req)
        \/ BuildOpenMapping(t)
        \/ BuildWriteMapping(t)
        \/ BuildOpenMetadata(t)
        \/ BuildWriteMetadata(t)
        \/ BuildFinish(t)
        \/ BuildIOError(t)
        \/ \E d \in Docs : Delete(t, d)
        \/ \E d \in Docs, q \in SearchRequests : SearchStart(t, d, q)
        \/ SearchFinish(t)
        \/ \E req \in SimilarityRequests, listed \in Orderings(ListedDocs) :
              SimilarityStart(t, req, listed)
        \/ SimilarityStep(t)
        \/ \E d \in Docs, chunks \in ChunkLists : SaveStart(t, d, chunks)
        \/ SaveOpenChunks(t)
        \/ SaveWriteChunks(t)
        \/ SaveOpenMetadata(t)
        \/ SaveWriteMetadata(t)
        \/ SaveIOError(t)
        \/ \E d \in Docs : GetChunksStart(t, d)
        \/ GetChunksFinish(t)

Spec == Init /\ [][Next]_vars


\* ------------------------------------------------ the search functions alone
\* Largest top_k a call of the search functions is given.
MaxTopK == 2

\* main.py, cosine_similarity: a plain dot product
cosine_similarity(a, b) == Dot(a, b)

\* main.py line 194 (and line 247 of the global search)
KeepSimilarity(similarity, similarity_threshold) == similarity >= similarity_threshold

\* main.py, store_vectors: what vector_store[document_id] holds for a request
StoreRows(req) ==
    [i \in 1..Len(req.vectors) |-> [chunk_id |-> req.chunk_ids[i], vector |-> req.vectors[i]]]

\* main.py, search_vectors lines 184-217 on the rows stored for a document:
\* np.dot of arrays of different lengths raises, which the handler turns into
\* a 500
store_search(rows, query_vector, top_k, similarity_threshold) ==
    LET scored == [i \in 1..Len(rows) |->
                      [chunk_id |-> rows[i].chunk_id,
                       similarity_score |-> cosine_similarity(query_vector, rows[i].vector)]]
        similarities ==
            SelectSeq(scored, LAMBDA r : KeepSimilarity(r.similarity_score, similarity_threshold))
    IN  IF \E i \in 1..Len(rows) : Len(rows[i].vector) # Len(query_vector)
          THEN Err("HTTPException", "500", "ValueError")
          ELSE Ok(Truncate(SortByScore(similarities), top_k))

\* the requests create_index builds an index from
AcceptedRequests == {r \in BuildRequests : ~create_index_rejects(r)}

SearchQueries ==
    { AxisQuery,
      [i \in 1..ExpectedDim |-> IF i = ExpectedDim THEN Unit ELSE 0],
      [i \in 1..ExpectedDim |-> 0],
      <<Unit>> }

\* thresholds 0.0, 0.6, 0.8 and 1.0
SearchThresholds == {(t * Unit * Unit) \div 10 : t \in {0, 6, 8, 10}}

SearchCalls ==
    [fn : {"args"}, req : AcceptedRequests, query_vector : SearchQueries,
     top_k : 1..MaxTopK, similarity_threshold : SearchThresholds, result : {NoResult}]

\* faiss_manager.py, search_vectors on the index and mapping a build of
\* call.req has stored
CallSearchVectors ==
    /\ call.fn = "args"
    /\ call' = [call EXCEPT
          !.fn = "search_vectors",
          !.result = search_loaded(BuiltIndex(call.req), MappingData(call.req), "d1",
                                   call.query_vector, call.top_k, call.similarity_threshold)]
    /\ UNCHANGED <<storeVars, service, tasks, requests, pipeline>>

\* main.py, search_vectors on the rows a store request has stored
CallStoreSearch ==
    /\ call.fn = "args"
    /\ WellFormed(call.req)
    /\ call' = [call EXCEPT
          !.fn = "store_search",
          !.result = store_search(StoreRows(call.req), call.query_vector, call.top_k,
                                  call.similarity_threshold)]
    /\ UNCHANGED <<storeVars, service, tasks, requests, pipeline>>

\* builds whose own vectors are used as queries: the two well-formed builds,
\* one that stores its vectors as given and one that measures L2 distance
SelfRequests ==
    WellFormedRequests \cup
    { IndexRequest(<< <<3, 4>>, <<6, 8>> >>, <<"e1", "e2">>, <<"c1", "c2">>,
                   VectorStoreConfig("Flat", "IP", 100, FALSE)),
      IndexRequest(<< <<3, 4>>, <<4, 3>> >>, <<"e1", "e2">>, <<"c1", "c2">>,
                   VectorStoreConfig("IVFFlat", "L2", 100, TRUE)) }

SelfSearchCalls ==
    UNION {[fn : {"self_args"}, req : {r}, slot : 1..Len(r.vectors), top_k : 1..MaxTopK,
            result : {NoResult}] : r \in SelfRequests}

\* faiss_manager.py, create_index then search_vectors with one of the stored
\* vectors as the query and the default threshold 0.0
CallSelfSearch ==
    /\ call.fn = "self_args"
    /\ call' = [call EXCEPT
          !.fn = "self_search",
          !.result = search_loaded(BuiltIndex(call.req), MappingData(call.req), "d1",
                                   call.req.vectors[call.slot], call.top_k, 0)]
    /\ UNCHANGED <<storeVars, service, tasks, requests, pipeline>>

\* routers/vector_search.py, similarity_search lines 155-172 run without
\* interruption over documents whose indexes are loaded: each document is
\* searched for top_k * 2 hits, a search that fails ends the request, the
\* hits are merged, sorted by score and cut to top_k
RECURSIVE similarity_results(_, _, _, _, _)
similarity_results(docs, builds, query_vector, top_k, similarity_threshold) ==
    IF docs = <<>> THEN Ok(<<>>)
    ELSE LET d == Head(docs)
             found == search_loaded(BuiltIndex(builds[d]), MappingData(builds[d]), d,
                                    query_vector, top_k * 2, similarity_threshold)
             rest == similarity_results(Tail(docs), builds, query_vector, top_k,
                                        similarity_threshold)
         IN  IF ~found.ok THEN SimilarityFailure(found.kind)
             ELSE IF ~rest.ok THEN rest
             ELSE Ok(found.value \o rest.value)

similarity_search(docs, builds, query_vector, top_k, similarity_threshold) ==
    LET all_results == similarity_results(docs, builds, query_vector, top_k,
                                          similarity_threshold)
    IN  IF all_results.ok THEN Ok(MergeResults(all_results.value, top_k))
        ELSE all_results

GlobalSearchCalls ==
    [fn : {"global_args"}, docs : Orderings(Docs), builds : [Docs -> SelfRequests],
     query_vector : SearchQueries, top_k : 1..MaxTopK,
     similarity_threshold : SearchThresholds, result : {NoResult}]

CallSimilaritySearch ==
    /\ call.fn = "global_args"
    /\ call' = [call EXCEPT
          !.fn = "similarity_search",
          !.result = similarity_search(call.docs, call.builds, call.query_vector,
                                       call.top_k, call.similarity_threshold)]
    /\ UNCHANGED <<storeVars, service, tasks, requests, pipeline>>

EmptyStore ==
    /\ index_files = [d \in Docs |-> NoFile]
    /\ mapping_files = [d \in Docs |-> NoFile]
    /\ metadata_files = [d \in Docs |-> NoFile]
    /\ chunks_files = [d \in Docs |-> NoFile]
    /\ chunk_metadata_files = [d \in Docs |-> NoFile]
    /\ embedding_files = {}
    /\ index_cache = [d \in Docs |-> NotCached]
    /\ metadata_cache = [d \in Docs |-> NotCached]
    /\ tasks = [t \in Tasks |-> IdleTask]
    /\ requests = 0

InitSearch ==
    /\ EmptyStore
    /\ service = "vector-store-service"
    /\ call \in SearchCalls \cup SelfSearchCalls \cup GlobalSearchCalls
    /\ pipeline = NoPipeline

NextSearch ==
    \/ CallSearchVectors
    \/ CallStoreSearch
    \/ CallSelfSearch
    \/ CallSimilaritySearch

SpecSearch == InitSearch /\ [][NextSearch]_vars


\* ------------------------------------------- the RAG pipeline, answer_question
\* Largest context_length an answer call is given.
MaxContextLength == 2

\* rag_pipeline.py lines 72, 79, 100, 105: the text given to the LLM in place of
\* contexts ("no related information was found")
NoContextText == <<"no related information was found">>

\* The service behind self.vector_store_service: the FAISS router
\* (routers/vector_search.py) or the in-memory store (main.py); both take the
\* payload _search_contexts posts.
Backends == {"faiss_router", "memory_store"}

\* routers/vector_search.py search_vectors, lines 81-129, served by a manager
\* created for the request (get_faiss_manager): _load_index and the search
router_search(d, query_vector, top_k, similarity_threshold) ==
    LET l == LoadStart(d)
    IN  IF l.raise THEN SearchError("DocumentNotFoundError")
        ELSE SearchRead([index |-> l.index], d, query_vector, top_k, similarity_threshold)

\* main.py search_vectors, lines 175-226: a document the store does not hold
\* gives a successful empty response
memory_search(vector_store, d, query_vector, top_k, similarity_threshold) ==
    IF d \notin DOMAIN vector_store THEN Ok(<<>>)
    ELSE store_search(vector_store[d], query_vector, top_k, similarity_threshold)

\* the HTTP response to the POST of _search_contexts (line 196)
SearchResponse(p) ==
    LET r == IF p.backend = "faiss_router"
             THEN router_search(p.document_id, p.question_embedding, p.context_length,
                                p.similarity_threshold)
             ELSE memory_search(p.vector_store, p.document_id, p.question_embedding,
                                p.context_length, p.similarity_threshold)
    IN  [status |-> router_search_status(r), results |-> r.value]

\* The page size of GET /text/chunks/{document_id} when the request names no
\* limit (100 in the code, routers/text_processing.py line 89).
DefaultLimit == 2

\* routers/text_processing.py get_chunks, lines 86-121, as _fetch_chunk_contents
\* calls it: no limit and no offset in the request, so the defaults apply
ChunksResponse(d) ==
    IF chunks_files[d].state = "written"
      THEN [status |-> 200, chunks |-> get_chunks_page(chunks_files[d].data, DefaultLimit, 0)]
    ELSE IF chunks_files[d].state = "absent" THEN [status |-> 404, chunks |-> <<>>]
    ELSE [status |-> 500, chunks |-> <<>>]

\* _fetch_chunk_contents lines 234-259: the results whose chunk is found, each
\* with the chunk's content
MatchContexts(search_results, chunks) ==
    LET found(r) == \E i \in DOMAIN chunks : chunks[i].chunk_id = r.chunk_id
        chunk(r) == chunks[CHOOSE i \in DOMAIN chunks : chunks[i].chunk_id = r.chunk_id]
        kept     == SelectSeq(search_results, found)
    IN  [i \in DOMAIN kept |->
            [chunk_id |-> kept[i].chunk_id,
             document_id |-> IF "document_id" \in DOMAIN kept[i]
                             THEN kept[i].document_id ELSE "none",
             content |-> chunk(kept[i]).content,
             similarity_score |-> kept[i].similarity_score]]

MaxScore(contexts) ==
    CHOOSE m \in {contexts[i].similarity_score : i \in DOMAIN contexts} :
        \A i \in DOMAIN contexts : contexts[i].similarity_score <= m

\* _calculate_confidence, lines 301-316, in units of 1 / (Unit * Unit)
calculate_confidence(contexts) ==
    LET one == Unit * Unit
    IN  IF contexts = <<>> THEN one \div 10
        ELSE Min2((MaxScore(contexts) * 7) \div 10
                     + Min2((Len(contexts) * one) \div 10, (3 * one) \div 10),
                  (95 * one) \div 100)

\* lines 135-139: whatever is raised inside answer_question leaves it as
\* ProcessingError("rag_pipeline"); `cause` names what was raised
AnswerError(cause) == Err("ProcessingError", "rag_pipeline", cause)

AnswerFails(p, cause) == [p EXCEPT !.pc = "done", !.result = AnswerError(cause)]

\* a document of more chunks than one page of the chunk listing holds
LongRequest ==
    IndexRequest(<< <<3, 4>>, <<4, 3>>, <<5, 0>> >>, <<"e1", "e2", "e8">>,
                 <<"c1", "c2", "c8">>, DefaultConfig)

LongChunks ==
    << TextChunk("c1", "Paris is the capital", 0), TextChunk("c2", "of France.", 1),
       TextChunk("c8", "It has two airports.", 2) >>

\* what was indexed for d1 before the answer call
AnswerStoredRequests == {StoredRequest, LongRequest}

\* what the vector store holds when the index of d1 was built from r: the same
\* rows
StoredRows(stored, r) == [d \in stored |-> StoreRows(r)]

\* the two embedding services of the repository: the application built from
\* routers/embeddings.py and the one of main_simple.py
Embedders == {"embeddings_router", "main_simple"}

\* rag_pipeline.py line 148: the uuid4 the question is sent under
QuestionDocument == "question"

\* routers/embeddings.py lines 67-69 with embedding_manager.py save_embeddings:
\* a request that names a document_id has its embeddings stored under it
\* before the response is sent; main_simple.py stores nothing
EmbeddingsAfterGenerate(embedder, outcome) ==
    IF embedder = "embeddings_router" /\ outcome \in {"vector", "no_embeddings"}
    THEN embedding_files \cup {QuestionDocument}
    ELSE embedding_files

AnswerCalls ==
    [pc : {"embed"}, backend : Backends, embedder : Embedders,
     vector_store : {StoredRows(s, r) : s \in SUBSET {"d1"}, r \in AnswerStoredRequests},
     document_id : Docs \cup {"none"},
     context_length : 1..MaxContextLength,
     similarity_threshold : {0, (6 * Unit * Unit) \div 10},
     question_embedding : {<<>>}, contexts : {<<>>}, contexts_with_content : {<<>>},
     context_text : {<<>>}, calls : {<<>>}, result : {NoResult}]

\* _generate_question_embedding (lines 141-171), then _search_contexts up to
\* its POST (lines 182-196)
AnswerEmbed(outcome) ==
    /\ pipeline.pc = "embed"
    /\ LET p == [pipeline EXCEPT !.calls = Append(@, "embed")]
       IN  pipeline' =
             IF outcome = "connect_error" THEN AnswerFails(p, "embedding_service")
             ELSE IF outcome = "status_error" THEN AnswerFails(p, "HTTPStatusError")
             ELSE IF outcome = "no_embeddings" THEN AnswerFails(p, "embedding_generation")
             ELSE IF p.document_id = "none" THEN AnswerFails(p, "search_scope")
             ELSE [p EXCEPT !.pc = "search", !.question_embedding = AxisQuery]
    /\ embedding_files' = EmbeddingsAfterGenerate(pipeline.embedder, outcome)
    /\ UNCHANGED <<indexVars, chunkVars, service, tasks, requests, call>>

\* AnswerSearch without the test of line 70: the chunks are fetched whatever
\* the search gave
AnswerSearch_AlwaysFetch(outcome) ==
    /\ pipeline.pc = "search"
    /\ LET p == [pipeline EXCEPT !.calls = Append(@, "search")]
           response == SearchResponse(p)
           filtered == SelectSeq(response.results,
                          LAMBDA r : r.similarity_score >= p.similarity_threshold)
       IN  pipeline' =
             IF outcome = "connect_error" THEN AnswerFails(p, "vector_store_service")
             ELSE IF response.status # 200 THEN AnswerFails(p, "HTTPStatusError")
             ELSE [p EXCEPT !.pc = "fetch", !.contexts = filtered]
    /\ UNCHANGED <<storeVars, service, tasks, requests, call>>

\* _search_contexts from the response on (lines 200-214), then lines 66-72
AnswerSearch(outcome) ==
    /\ pipeline.pc = "search"
    /\ LET p == [pipeline EXCEPT !.calls = Append(@, "search")]
           response == SearchResponse(p)
           filtered == SelectSeq(response.results,
                          LAMBDA r : r.similarity_score >= p.similarity_threshold)
       IN  pipeline' =
             IF outcome = "connect_error" THEN AnswerFails(p, "vector_store_service")
             ELSE IF response.status # 200 THEN AnswerFails(p, "HTTPStatusError")
             ELSE IF filtered = <<>>
               THEN [p EXCEPT !.pc = "generate", !.context_text = NoContextText]
             ELSE [p EXCEPT !.pc = "fetch", !.contexts = filtered]
    /\ UNCHANGED <<storeVars, service, tasks, requests, call>>

\* _fetch_chunk_contents from the response on (lines 230-276), then lines 77-105
AnswerFetch(outcome) ==
    /\ pipeline.pc = "fetch"
    /\ LET p == [pipeline EXCEPT !.calls = Append(@, "fetch")]
           response == ChunksResponse(p.document_id)
           with_content == IF response.status # 200 THEN <<>>
                           ELSE MatchContexts(p.contexts, response.chunks)
       IN  pipeline' =
             IF outcome = "connect_error" THEN AnswerFails(p, "text_processing_service")
             ELSE [p EXCEPT
                     !.pc = "generate",
                     !.contexts_with_content = with_content,
                     !.context_text =
                        IF with_content = <<>> THEN NoContextText
                        ELSE [i \in DOMAIN with_content |-> with_content[i].content]]
    /\ UNCHANGED <<storeVars, service, tasks, requests, call>>

\* nvidia_client.generate_response, then lines 117-133
AnswerGenerate(outcome) ==
    /\ pipeline.pc = "generate"
    /\ LET p == [pipeline EXCEPT !.calls = Append(@, "generate")]
       IN  pipeline' =
             IF outcome = "error" THEN AnswerFails(p, "nvidia_api")
             ELSE [p EXCEPT
                     !.pc = "done",
                     !.result = Ok([answer |-> "answer",
                                    confidence |-> calculate_confidence(p.contexts_with_content),
                                    contexts_used |-> p.contexts_with_content,
                                    total_contexts_found |-> Len(p.contexts_with_content)])]
    /\ UNCHANGED <<storeVars, service, tasks, requests, call>>

\* The llm-service runs one answer_question call against a vector store and a
\* chunk store that hold nothing or what was stored for d1.
InitAnswer ==
    /\ service = "llm-service"
    /\ pipeline \in AnswerCalls
    /\ LET stored == DOMAIN pipeline.vector_store
           r == CHOOSE x \in AnswerStoredRequests : pipeline.vector_store = StoredRows(stored, x)
       IN  /\ index_files = [d \in Docs |->
                 IF d \in stored THEN Written(BuiltIndex(r)) ELSE NoFile]
           /\ mapping_files = [d \in Docs |->
                 IF d \in stored THEN Written(MappingData(r)) ELSE NoFile]
           /\ metadata_files = [d \in Docs |->
                 IF d \in stored THEN Written(IndexMetadata(d, r)) ELSE NoFile]
           /\ embedding_files = stored
    /\ \E chunks \in ChunkLists \cup {LongChunks}, saved \in SUBSET {"d1"} :
           /\ chunks_files = [d \in Docs |-> IF d \in saved THEN Written(chunks) ELSE NoFile]
           /\ chunk_metadata_files = [d \in Docs |->
                 IF d \in saved THEN Written(ChunkMetadata(d, chunks)) ELSE NoFile]
    /\ index_cache = [d \in Docs |-> NotCached]
    /\ metadata_cache = [d \in Docs |-> NotCached]
    /\ tasks = [t \in Tasks |-> IdleTask]
    /\ requests = 0
    /\ call = NoCall

NextAnswer ==
    \/ \E outcome \in {"vector", "no_embeddings", "status_error", "connect_error"} :
          AnswerEmbed(outcome)
    \/ \E outcome \in {"response", "connect_error"} : AnswerSearch(outcome)
    \/ \E outcome \in {"response", "connect_error"} : AnswerFetch(outcome)
    \/ \E outcome \in {"answer", "error"} : AnswerGenerate(outcome)

SpecAnswer == InitAnswer /\ [][NextAnswer]_vars


\* ------------------------------------------------------- the text splitter
\* A text is a sequence of characters.  Longest text handed to split_text.
MaxTextLen == 4

\* Largest chunk_size of a splitter configuration (100..2000 in the code).
MaxChunkSize == 3

Space == " "

Newline == "\n"

Chars == {"a", ".", Space, Newline}

\* str.isspace for one character
IsSpace(c) == c \in {Space, Newline}

\* str.strip()
Strip(s) ==
    LET keep == {i \in DOMAIN s : ~IsSpace(s[i])}
    IN  IF keep = {} THEN <<>>
        ELSE SubSeq(s, CHOOSE i \in keep : \A j \in keep : i <= j,
                       CHOOSE i \in keep : \A j \in keep : i >= j)

\* re.sub(r'\s+', ' ', text): every run of whitespace becomes one space
RECURSIVE CollapseWhitespace(_)
CollapseWhitespace(s) ==
    IF s = <<>> THEN <<>>
    ELSE IF IsSpace(Head(s))
      THEN IF Len(s) > 1 /\ IsSpace(s[2]) THEN CollapseWhitespace(Tail(s))
           ELSE <<Space>> \o CollapseWhitespace(Tail(s))
    ELSE <<Head(s)>> \o CollapseWhitespace(Tail(s))

\* text.split('\n')
RECURSIVE SplitLines(_)
SplitLines(s) ==
    IF \A i \in DOMAIN s : s[i] # Newline THEN <<s>>
    ELSE LET n == CHOOSE i \in DOMAIN s : s[i] = Newline /\ \A j \in 1..(i - 1) : s[j] # Newline
         IN  <<SubSeq(s, 1, n - 1)>> \o SplitLines(SubSeq(s, n + 1, Len(s)))

\* '\n'.join(lines)
RECURSIVE JoinLines(_)
JoinLines(lines) ==
    IF lines = <<>> THEN <<>>
    ELSE IF Len(lines) = 1 THEN lines[1]
    ELSE lines[1] \o <<Newline>> \o JoinLines(Tail(lines))

\* lines 72-73: the lines that hold more than whitespace, joined again
RemoveEmptyLines(s) ==
    JoinLines(SelectSeq(SplitLines(s), LAMBDA line : Strip(line) # <<>>))

\* TextProcessingConfig as split_text reads it
TextProcessingConfig(chunk_size, chunk_overlap, separators, min_chunk_size, remove_whitespace, remove_empty_lines) ==
    [chunk_size |-> chunk_size, chunk_overlap |-> chunk_overlap, separators |-> separators,
     min_chunk_size |-> min_chunk_size, remove_whitespace |-> remove_whitespace,
     remove_empty_lines |-> remove_empty_lines]

\* _preprocess_text, lines 63-75
preprocess_text(text, config) ==
    LET t1 == IF config.remove_whitespace THEN CollapseWhitespace(text) ELSE text
        t2 == IF config.remove_empty_lines THEN RemoveEmptyLines(t1) ELSE t1
    IN  Strip(t2)

\* text.rfind(separator, lo, hi): the last position in lo..hi-len(separator)
\* where separator starts, or -1
RFind(text, separator, lo, hi) ==
    LET found == {p \in lo..(hi - Len(separator)) :
                     SubSeq(text, p + 1, p + Len(separator)) = separator}
    IN  IF found = {} THEN 0 - 1 ELSE CHOOSE p \in found : \A o \in found : o <= p

\* _find_best_split_position, lines 138-154
RECURSIVE find_best_split_position(_, _, _, _)
find_best_split_position(text, start_pos, max_end_pos, separators) ==
    IF max_end_pos >= Len(text) THEN Len(text)
    ELSE IF separators = <<>> THEN max_end_pos
    ELSE LET separator == Head(separators)
             search_start == Max2(start_pos, max_end_pos - Len(separator))
             pos == RFind(text, separator, search_start, max_end_pos)
         IN  IF separator = <<>> THEN max_end_pos
             ELSE IF pos # 0 - 1 /\ pos > start_pos THEN pos + Len(separator)
             ELSE find_best_split_position(text, start_pos, max_end_pos, Tail(separators))

\* the TextChunk _split_into_chunks builds, lines 104-114
SplitChunk(content, chunk_index, start_position, end_position) ==
    [content |-> content, chunk_index |-> chunk_index,
     start_position |-> start_position, end_position |-> end_position]

\* a variant of the next window start without the floor of current_pos + 1
NextStart_NoFloor(current_pos, best_split_pos, chunk_overlap) ==
    Max2(current_pos, best_split_pos - chunk_overlap)

NextStart_SkipsOne(current_pos, best_split_pos, chunk_overlap) ==
    Max2(current_pos + 1, best_split_pos - chunk_overlap + 1)

\* lines 119-125: where the next window starts
NextStart(current_pos, best_split_pos, chunk_overlap) ==
    LET next_start == Max2(current_pos + 1, best_split_pos - chunk_overlap)
    IN  IF next_start <= current_pos THEN current_pos + 1 ELSE next_start

\* the while loop of _split_into_chunks, lines 91-125; chunk_index is the
\* number of chunks appended so far
RECURSIVE split_loop(_, _, _, _, _, _)
split_loop(text, chunk_size, chunk_overlap, separators, current_pos, chunks) ==
    IF current_pos >= Len(text) THEN chunks
    ELSE LET end_pos == Min2(current_pos + chunk_size, Len(text))
             best_split_pos == find_best_split_position(text, current_pos, end_pos, separators)
             chunk_content == Strip(SubSeq(text, current_pos + 1, best_split_pos))
             appended == IF chunk_content # <<>>
                           THEN Append(chunks, SplitChunk(chunk_content, Len(chunks),
                                                          current_pos, best_split_pos))
                           ELSE chunks
         IN  split_loop(text, chunk_size, chunk_overlap, separators,
                        NextStart(current_pos, best_split_pos, chunk_overlap), appended)

\* _split_into_chunks, lines 77-127
split_into_chunks(text, chunk_size, chunk_overlap, separators) ==
    split_loop(text, chunk_size, chunk_overlap, separators, 0, <<>>)

\* line 23, without the ideographic full stop, which no text here contains
default_separators == << <<Newline, Newline>>, <<Newline>>, <<".">>, <<Space>>, <<>> >>

\* line 46: config.separators or self.default_separators
SeparatorsOf(config) ==
    IF config.separators # <<>> THEN config.separators ELSE default_separators

\* line 38: the text the chunks' positions refer to
ProcessedText(text, config) == preprocess_text(text, config)

\* split_text before the size filter, lines 38-47
UnfilteredChunks(text, config) ==
    split_into_chunks(ProcessedText(text, config), config.chunk_size, config.chunk_overlap,
                      SeparatorsOf(config))

\* lines 50-53
KeepChunk(chunk, config) == Len(chunk.content) >= config.min_chunk_size

\* split_text, lines 25-61: nothing in the try block raises for a text and a
\* validated configuration, so the result is always the filtered list
split_text(text, config) ==
    Ok(SelectSeq(UnfilteredChunks(text, config), LAMBDA chunk : KeepChunk(chunk, config)))

\* ------------------------------------- the text-processing functions alone
RECURSIVE TextsOfLen(_)
TextsOfLen(n) ==
    IF n = 0 THEN {<<>>}
    ELSE {Append(t, c) : t \in TextsOfLen(n - 1), c \in Chars}

Texts == UNION {TextsOfLen(n) : n \in 0..MaxTextLen}

\* shared/models/text_processing.py, TextProcessingConfig: chunk_overlap is
\* validated to be below chunk_size; the sizes are scaled down
ConfigSeparators == {<<>>, << <<Newline, Newline>>, <<Newline>>, <<".">>, <<Space>> >>}

SplitConfigs ==
    UNION {{TextProcessingConfig(cs, co, seps, mc, rw, re) :
               co \in 0..(cs - 1), seps \in ConfigSeparators, mc \in 1..2,
               rw \in BOOLEAN, re \in BOOLEAN} : cs \in 2..MaxChunkSize}

SplitCalls ==
    [fn : {"split_args"}, text : Texts, config : SplitConfigs, result : {NoResult}]

\* text_splitter.py, split_text
CallSplitText ==
    /\ call.fn = "split_args"
    /\ call' = [call EXCEPT !.fn = "split_text",
                            !.result = split_text(call.text, call.config)]
    /\ UNCHANGED <<storeVars, service, tasks, requests, pipeline>>

\* Largest limit and largest offset a chunk listing is asked with.
MaxLimit == 3

MaxOffset == 3

\* routers/text_processing.py, get_chunks: limit has an upper bound only and
\* offset is at least 0; a limit of 0 also stands for the manager's limit=None
GetChunksCalls ==
    [fn : {"get_chunks_args"}, chunks : ChunkLists \cup {LongChunks},
     limit : 0..MaxLimit, offset : 0..MaxOffset, result : {NoResult}]

\* chunk_manager.py, get_chunks lines 99-109 on the chunks read from the file
CallGetChunks ==
    /\ call.fn = "get_chunks_args"
    /\ call' = [call EXCEPT
          !.fn = "get_chunks",
          !.result = Ok(get_chunks_page(call.chunks, call.limit, call.offset))]
    /\ UNCHANGED <<storeVars, service, tasks, requests, pipeline>>

InitText ==
    /\ EmptyStore
    /\ service = "text-processing-service"
    /\ call \in SplitCalls \cup GetChunksCalls
    /\ pipeline = NoPipeline

NextText ==
    \/ CallSplitText
    \/ CallGetChunks

SpecText == InitText /\ [][NextText]_vars

\* ------------------------------------------- the chunking loop, step by step
\* _split_into_chunks is called with any chunk_size >= 1 and chunk_overlap >= 0:
\* the function itself does not require chunk_overlap < chunk_size
\* the texts of letters, spaces and line breaks
ChunkerTexts == {t \in Texts : \A i \in DOMAIN t : t[i] # "."}

ChunkerCalls ==
    [fn : {"split_into_chunks"}, text : ChunkerTexts, chunk_size : 1..MaxChunkSize,
     chunk_overlap : 0..MaxChunkSize, separators : {default_separators},
     current_pos : {0}, chunks : {<<>>}, result : {NoResult}]

\* one pass of the while loop, lines 91-125
ChunkerIterate ==
    /\ call.fn = "split_into_chunks"
    /\ call.current_pos < Len(call.text)
    /\ LET end_pos == Min2(call.current_pos + call.chunk_size, Len(call.text))
           best_split_pos ==
               find_best_split_position(call.text, call.current_pos, end_pos, call.separators)
           chunk_content == Strip(SubSeq(call.text, call.current_pos + 1, best_split_pos))
       IN  call' = [call EXCEPT
              !.chunks = IF chunk_content # <<>>
                           THEN Append(@, SplitChunk(chunk_content, Len(@), call.current_pos,
                                                     best_split_pos))
                           ELSE @,
              !.current_pos = NextStart(call.current_pos, best_split_pos, call.chunk_overlap)]
    /\ UNCHANGED <<storeVars, service, tasks, requests, pipeline>>

\* line 91 fails and line 127 returns
ChunkerReturn ==
    /\ call.fn = "split_into_chunks"
    /\ call.current_pos >= Len(call.text)
    /\ call' = [call EXCEPT !.fn = "returned", !.result = Ok(call.chunks)]
    /\ UNCHANGED <<storeVars, service, tasks, requests, pipeline>>

InitChunker ==
    /\ EmptyStore
    /\ service = "text-processing-service"
    /\ call \in ChunkerCalls
    /\ pipeline = NoPipeline

NextChunker ==
    \/ ChunkerIterate
    \/ ChunkerReturn

\* the loop is sequential code: a pass that can run does run
SpecChunker == InitChunker /\ [][NextChunker]_vars /\ WF_vars(NextChunker)

\* -------------------------- main_complex.py, split_text_into_chunks, by steps
\* a Python slice bound i on a string of length n: negative bounds count from
\* the end, and every bound is clipped to 0..n
PyBound(i, n) == IF i < 0 THEN Max2(i + n, 0) ELSE Min2(i, n)

\* text[a:b] with bounds of either sign
PySliceSigned(text, a, b) ==
    SubSeq(text, PyBound(a, Len(text)) + 1, PyBound(b, Len(text)))

\* line 86, without the ideographic marks, which no text here contains
Punctuation == << <<".">>, <<"!">>, <<"?">> >>

\* lines 86-90: the end of the first punctuation mark, in list order, that
\* text.rfind(punct, start, end) finds; `end` if none is found
RECURSIVE PunctuationEnd(_, _, _, _)
PunctuationEnd(text, start, end, puncts) ==
    IF puncts = <<>> THEN end
    ELSE LET punct_pos == RFind(text, Head(puncts), PyBound(start, Len(text)),
                                PyBound(end, Len(text)))
         IN  IF punct_pos # 0 - 1 THEN punct_pos + 1
             ELSE PunctuationEnd(text, start, end, Tail(puncts))

\* The loop may run for ever; a run is followed while it has appended no more
\* chunks than a loop whose start keeps growing could.
MaxChunks == MaxTextLen + 1

AltChunkerCalls ==
    UNION {[fn : {"split_text_into_chunks"}, text : Texts, chunk_size : {cs},
            chunk_overlap : 0..(cs - 1), start : {0}, chunks : {<<>>},
            result : {NoResult}] : cs \in 1..MaxChunkSize}

\* lines 74-75: a blank text gives no chunks
AltChunkerBlank ==
    /\ call.fn = "split_text_into_chunks"
    /\ call.start = 0 /\ call.chunks = <<>>
    /\ Strip(call.text) = <<>>
    /\ call' = [call EXCEPT !.fn = "returned", !.result = Ok(<<>>)]
    /\ UNCHANGED <<storeVars, service, tasks, requests, pipeline>>

\* one pass of the while loop, lines 80-98, with the break and the return
AltChunkerIterate ==
    /\ call.fn = "split_text_into_chunks"
    /\ Strip(call.text) # <<>>
    /\ call.start < Len(call.text)
    /\ Len(call.chunks) < MaxChunks
    /\ LET window_end == call.start + call.chunk_size
           end == IF window_end < Len(call.text)
                    THEN PunctuationEnd(call.text, call.start, window_end, Punctuation)
                  ELSE window_end
           chunk == Strip(PySliceSigned(call.text, call.start, end))
           chunks == IF chunk # <<>> THEN Append(call.chunks, chunk) ELSE call.chunks
           start == end - call.chunk_overlap
       IN  call' = IF start >= Len(call.text)
                     THEN [call EXCEPT !.fn = "returned", !.start = start,
                                       !.chunks = chunks, !.result = Ok(chunks)]
                   ELSE [call EXCEPT !.start = start, !.chunks = chunks]
    /\ UNCHANGED <<storeVars, service, tasks, requests, pipeline>>

InitAltChunker ==
    /\ EmptyStore
    /\ service = "text-processing-service"
    /\ call \in AltChunkerCalls
    /\ pipeline = NoPipeline

NextAltChunker ==
    \/ AltChunkerBlank
    \/ AltChunkerIterate

SpecAltChunker == InitAltChunker /\ [][NextAltChunker]_vars /\ WF_vars(NextAltChunker)

\* ----------------------------------------------- the confidence of an answer
\* Most contexts an answer is built from.
MaxContexts == 4

\* similarity scores 0.0, 0.25, 0.5, 0.75 and 1.0
ContextScores == {(k * Unit * Unit) \div 4 : k \in 0..4}

RECURSIVE ContextsOfLen(_)
ContextsOfLen(n) ==
    IF n = 0 THEN {<<>>}
    ELSE {Append(c, [similarity_score |-> s]) : c \in ContextsOfLen(n - 1), s \in ContextScores}

\* llm-service main.py, question_answering line 348: the /api/v1/qa endpoint
\* the application registers reports a constant
qa_confidence(contexts_used) ==
    IF contexts_used # <<>> THEN (85 * Unit * Unit) \div 100 ELSE (Unit * Unit) \div 10

ConfidenceCalls ==
    [fn : {"confidence_args"},
     contexts : UNION {ContextsOfLen(n) : n \in 0..MaxContexts},
     result : {NoResult}]

\* rag_pipeline.py, _calculate_confidence as answer_question calls it (line 120)
CallCalculateConfidence ==
    /\ call.fn = "confidence_args"
    /\ call' = [call EXCEPT !.fn = "calculate_confidence",
                            !.result = Ok(calculate_confidence(call.contexts))]
    /\ UNCHANGED <<storeVars, service, tasks, requests, pipeline>>

\* main.py, the confidence field of question_answering's response
CallQuestionAnswering ==
    /\ call.fn = "confidence_args"
    /\ call' = [call EXCEPT !.fn = "question_answering",
                            !.result = Ok(qa_confidence(call.contexts))]
    /\ UNCHANGED <<storeVars, service, tasks, requests, pipeline>>

InitConfidence ==
    /\ EmptyStore
    /\ service = "llm-service"
    /\ call \in ConfidenceCalls
    /\ pipeline = NoPipeline

NextConfidence ==
    \/ CallCalculateConfidence
    \/ CallQuestionAnswering

SpecConfidence == InitConfidence /\ [][NextConfidence]_vars

\* ----------------------------------------------------- reading a behaviour
\* in this step slot t took a new request
Started(t) == requests' = requests + 1 /\ tasks'[t].id = requests + 1

\* in this step the coroutine of slot t returned or raised to its caller
Finished(t) ==
    /\ tasks'[t].pc = "done"
    /\ tasks[t].pc # "done" \/ tasks'[t].id # tasks[t].id

\* nothing of an index of d is on disk or cached
HasNoIndex(d) ==
    /\ ~Exists(index_files[d])
    /\ ~Exists(mapping_files[d])
    /\ ~Exists(metadata_files[d])
    /\ index_cache[d] = NotCached

\* the three index artifacts of d are what one build of request r stores
StoredBy(d, r) ==
    /\ index_files[d] = Written(BuiltIndex(r))
    /\ mapping_files[d] = Written(MappingData(r))
    /\ metadata_files[d] = Written(IndexMetadata(d, r))

CompleteIndex(d) == \E r \in WellFormedRequests : StoredBy(d, r)

CompleteChunks(d) ==
    \E c \in ChunkLists : /\ chunks_files[d] = Written(c)
                          /\ chunk_metadata_files[d] = Written(ChunkMetadata(d, c))

\* every build that runs or ran in a slot was given lists of one length
OnlyWellFormedBuilds ==
    \A t \in Tasks : tasks[t].op = "create_index" => WellFormed(tasks[t].req)

\* ------------------------------------------------------------------ claims

C2_SearchOfMissingIndexIsNotFound ==
    [][\A t \in Tasks :
          (Started(t) /\ tasks'[t].op = "search_vectors" /\ HasNoIndex(tasks'[t].doc))
          => (tasks'[t].pc = "done" /\ tasks'[t].result.kind = "DocumentNotFoundError")]_vars

\* C3 (as claimed): a create_index call whose vectors are empty or whose three
\* lists do not all have one length ends at once with
\* ProcessingError(index_creation) and leaves every index file as it was.
C3_IllFormedBuildRejected ==
    [][\A t \in Tasks :
          (Started(t) /\ tasks'[t].op = "create_index" /\ ~WellFormed(tasks'[t].req))
          => /\ tasks'[t].pc = "done"
             /\ tasks'[t].result.kind = "ProcessingError"
             /\ tasks'[t].result.step = "index_creation"
             /\ UNCHANGED <<index_files, mapping_files, metadata_files>>]_vars

\* C4 (as claimed): when no build of d is running and its index, mapping and
\* metadata are on disk, written by builds with well-formed requests, the
\* mapping has as many entries as the index has vectors and all three come from
\* one build.
C4_ConcurrentBuildsStayConsistent ==
    \A d \in Docs :
        ( /\ \A t \in Tasks : ~(tasks[t].op = "create_index" /\ tasks[t].doc = d
                                /\ InProgress(t))
          /\ \E r \in WellFormedRequests : index_files[d] = Written(BuiltIndex(r))
          /\ \E r \in WellFormedRequests : mapping_files[d] = Written(MappingData(r))
          /\ \E r \in WellFormedRequests :
                 metadata_files[d] = Written(IndexMetadata(d, r)) )
        => /\ Len(mapping_files[d].data.embedding_ids) = ntotal(index_files[d].data)
           /\ Len(mapping_files[d].data.chunk_ids) = ntotal(index_files[d].data)
           /\ metadata_files[d].data.total_vectors = ntotal(index_files[d].data)
           /\ CompleteIndex(d)

\* C5 (as claimed): while a create_index or a delete_index on d is running, no
\* other create_index, delete_index or search on d is running.
C5_BuildExcludesOthers ==
    \A t, u \in Tasks :
        ( /\ t # u
          /\ InProgress(t) /\ tasks[t].op \in {"create_index", "delete_index"}
          /\ InProgress(u)
          /\ tasks[u].op \in {"create_index", "delete_index", "search_vectors",
                              "similarity_search"} )
        => tasks[t].doc # tasks[u].doc

\* C6 (as claimed): a similarity_search (global search) request never fails:
\* a document whose search fails is skipped and the others' results are
\* merged.
C6_GlobalSearchSkipsFailures ==
    \A t \in Tasks :
        (tasks[t].op = "similarity_search" /\ tasks[t].pc = "done") => tasks[t].result.ok

\* C7: when create_index fails inside its try block, or save_chunks fails,
\* then in the state in which the error reaches the caller none of that
\* document's index files (index, mapping, metadata), respectively chunk files
\* (chunks, chunk metadata), exists.
C7_FailedWriteLeavesNoFile ==
    [][\A t \in Tasks :
          (Finished(t) /\ ~tasks'[t].result.ok)
          => /\ (tasks'[t].op = "create_index" /\ ~create_index_rejects(tasks'[t].req))
                => /\ ~Exists(index_files'[tasks'[t].doc])
                   /\ ~Exists(mapping_files'[tasks'[t].doc])
                   /\ ~Exists(metadata_files'[tasks'[t].doc])
             /\ tasks'[t].op = "save_chunks"
                => /\ ~Exists(chunks_files'[tasks'[t].doc])
                   /\ ~Exists(chunk_metadata_files'[tasks'[t].doc])]_vars

\* C7 witness: a build of d1 has failed with an I/O error while another build
\* of d1 was still writing, and the index and mapping files of d1 are gone
C7_Witness ==
    \E t, u \in Tasks :
        /\ tasks[t].op = "create_index" /\ tasks[t].pc = "done" /\ tasks[t].doc = "d1"
        /\ tasks[t].result.cause = "OSError"
        /\ tasks[u].op = "create_index" /\ tasks[u].doc = "d1" /\ InProgress(u)
        /\ ~Exists(index_files["d1"]) /\ ~Exists(mapping_files["d1"])

\* C8 (as claimed): a complete index of d, and a complete chunk set of d, stays
\* complete (the previous version or the new one) over every step of a rebuild
\* or re-save, a failing one included; only delete_index removes it.
C8_RewriteIsAtomic ==
    [][\A d \in Docs :
          /\ ( /\ CompleteIndex(d)
               /\ OnlyWellFormedBuilds'
               /\ ~\E t \in Tasks : Started(t) /\ tasks'[t].op = "delete_index"
                                    /\ tasks'[t].doc = d )
             => CompleteIndex(d)'
          /\ CompleteChunks(d) => CompleteChunks(d)']_vars

\* the vector store behind the pipeline holds no index of the call's document
AnswerDocHasNoIndex ==
    IF pipeline.backend = "faiss_router" THEN HasNoIndex(pipeline.document_id)
    ELSE pipeline.document_id \notin DOMAIN pipeline.vector_store

\* C9 (as claimed): when answer_question is called with a document_id that has
\* no index and the vector store has answered the search request, the call has
\* not failed at the search step: it has no contexts, its context text is the
\* placeholder, and if it has ended without an LLM failure it has succeeded
\* with no contexts used.
C9_MissingIndexGivesEmptyContext ==
    ( /\ pipeline.pc # "none"
      /\ pipeline.document_id \in Docs
      /\ AnswerDocHasNoIndex
      /\ Len(pipeline.calls) >= 2
      /\ ~(pipeline.pc = "done"
           /\ pipeline.result.cause \in {"vector_store_service", "nvidia_api"}) )
    => /\ pipeline.contexts = <<>>
       /\ pipeline.context_text = NoContextText
       /\ pipeline.pc = "done"
          => (pipeline.result.ok /\ pipeline.result.value.contexts_used = <<>>)

\* C10 (as claimed): when answer_question is called without a document_id and
\* the question's embedding has been generated, the call goes on to its search
\* step (a search across all documents); it has not ended with an error.
C10_NoDocumentIdSearchesGlobally ==
    ( /\ pipeline.pc # "none"
      /\ pipeline.document_id = "none"
      /\ pipeline.calls = <<"embed">>
      /\ ~(pipeline.pc = "done"
           /\ pipeline.result.cause \in {"embedding_service", "HTTPStatusError",
                                         "embedding_generation"}) )
    => pipeline.pc = "search"

\* C11 (as claimed): a failed answer_question call hands its caller a
\* ProcessingError whose step tag names the step that failed:
\* embedding_generation when the embedding service is unreachable or returns no
\* vector, text_processing_service when the chunk service is unreachable.
C11_FailureNamesItsStep ==
    (pipeline.pc = "done" /\ ~pipeline.result.ok)
    => /\ pipeline.result.cause \in {"embedding_service", "embedding_generation"}
          => (pipeline.result.kind = "ProcessingError"
              /\ pipeline.result.step = "embedding_generation")
       /\ pipeline.result.cause = "text_processing_service"
          => (pipeline.result.kind = "ProcessingError"
              /\ pipeline.result.step = "text_processing_service")

\* the search results of the call whose chunk id the chunk store holds for the
\* call's document, in their order
ResolvedContexts ==
    LET file   == chunks_files[pipeline.document_id]
        stored == IF file.state = "written" THEN file.data ELSE <<>>
    IN  SelectSeq(pipeline.contexts,
                  LAMBDA r : \E i \in DOMAIN stored : stored[i].chunk_id = r.chunk_id)

\* chunk ids and scores of a list of contexts, in order
IdsAndScores(contexts) ==
    [i \in DOMAIN contexts |->
        [chunk_id |-> contexts[i].chunk_id,
         similarity_score |-> contexts[i].similarity_score]]

\* C12 (as claimed): once the chunk service has answered the fetch of an
\* answer_question call, the contexts with content are exactly the search
\* results whose chunk id is in the chunk store, in ranked order and with their
\* search scores; a call that ends without an LLM failure succeeds with these
\* contexts.
C12_UnresolvedChunksAreDropped ==
    ( /\ pipeline.pc \in {"generate", "done"}
      /\ pipeline.calls # <<>>
      /\ \E i \in DOMAIN pipeline.calls : pipeline.calls[i] = "fetch"
      /\ ~(pipeline.pc = "done"
           /\ pipeline.result.cause \in {"text_processing_service", "nvidia_api"}) )
    => /\ IdsAndScores(pipeline.contexts_with_content) = IdsAndScores(ResolvedContexts)
       /\ pipeline.pc = "done"
          => /\ pipeline.result.ok
             /\ pipeline.result.value.contexts_used = pipeline.contexts_with_content

\* C13: split_text on an empty or whitespace-only text fails with
\* ProcessingError(empty_input) and never returns an empty chunk sequence.
C13_EmptyTextIsRejected ==
    (call.fn = "split_text" /\ Strip(call.text) = <<>>)
        => /\ ~call.result.ok
           /\ call.result.kind = "ProcessingError"
           /\ call.result.step = "empty_input"

\* the positions (counted from 1) of the processed text that hold content
ContentPositions(text, config) ==
    {i \in 1..Len(ProcessedText(text, config)) : ~IsSpace(ProcessedText(text, config)[i])}

\* the character at position i lies in the range of one of the chunks
CoveredBy(i, chunks) ==
    \E k \in 1..Len(chunks) : chunks[k].start_position < i /\ i <= chunks[k].end_position

\* C14 (as claimed): the chunks split_text returns cover the text: no
\* non-whitespace character of it is missing from the output.
C14_ChunksCoverText ==
    call.fn = "split_text"
        => \A i \in ContentPositions(call.text, call.config) : CoveredBy(i, call.result.value)

\* C14 (amended): the windows _split_into_chunks produces cover the text
\* without a gap, and a non-whitespace character is missing from what
\* split_text returns only if every produced chunk that holds it is shorter
\* than min_chunk_size and was filtered out.
C14_ChunksCoverTextUpToMinSize ==
    call.fn = "split_text"
        => \A i \in ContentPositions(call.text, call.config) :
              LET produced == UnfilteredChunks(call.text, call.config)
                  holding == {k \in 1..Len(produced) :
                                 produced[k].start_position < i /\ i <= produced[k].end_position}
              IN  /\ holding # {}
                  /\ \/ CoveredBy(i, call.result.value)
                     \/ \A k \in holding :
                           Len(produced[k].content) < call.config.min_chunk_size

\* a split that returned chunks and still lost a character to the size filter
C14_Witness ==
    /\ call.fn = "split_text"
    /\ call.result.value # <<>>
    /\ \E i \in ContentPositions(call.text, call.config) : ~CoveredBy(i, call.result.value)

\* C15: get_chunks(document_id, limit, offset) returns exactly the stored
\* chunks at positions offset .. offset+limit-1 (fewer only where the list
\* ends), for every limit >= 0 and offset >= 0, and never more than limit.
C15_ListHonoursPagination ==
    call.fn = "get_chunks"
        => LET page == call.result.value
               last == Min2(call.offset + call.limit, Len(call.chunks))
           IN  /\ Len(page) <= call.limit
               /\ Len(page) = Max2(last - call.offset, 0)
               /\ \A k \in 1..Len(page) : page[k] = call.chunks[call.offset + k]

\* C16: a search with one of the indexed vectors as the query returns the
\* result of that vector's own slot, and no returned score is above its score.
C16_OwnVectorRanksFirst ==
    call.fn = "self_search"
        => /\ call.result.ok
           /\ \E k \in 1..Len(call.result.value) :
                 /\ call.result.value[k].chunk_id = call.req.chunk_ids[call.slot]
                 /\ \A j \in 1..Len(call.result.value) :
                       call.result.value[j].similarity_score
                           <= call.result.value[k].similarity_score

\* what the search of one document returns for the parameters of the call
PerDocumentResults(d) ==
    search_loaded(BuiltIndex(call.builds[d]), MappingData(call.builds[d]), d,
                  call.query_vector, call.top_k, call.similarity_threshold)

\* C17: the global search returns at most top_k results, best score first,
\* and each of them is among the results the search of its own document
\* returns for the same query, top_k and threshold.
C17_GlobalResultsComeFromPerDocumentTopK ==
    (call.fn = "similarity_search" /\ call.result.ok)
        => LET results == call.result.value
           IN  /\ Len(results) <= call.top_k
               /\ \A i \in 1..(Len(results) - 1) :
                     results[i].similarity_score >= results[i + 1].similarity_score
               /\ \A i \in 1..Len(results) :
                     [results[i] EXCEPT !.rank = 0]
                        \in {[r EXCEPT !.rank = 0] :
                                r \in Range(PerDocumentResults(results[i].document_id).value)}

\* C18: the confidence of an answer is 0.1 when no context was used and
\* otherwise min(0.95, 0.7 * max_similarity_score + min(0.3, 0.1 * count))
\* over the contexts used (in units of 1 / (Unit * Unit)).
C18_ConfidenceFollowsFormula ==
    call.fn \in {"calculate_confidence", "question_answering"}
        => LET one == Unit * Unit
               n == Len(call.contexts)
               top == CHOOSE s \in {call.contexts[i].similarity_score : i \in 1..n} :
                         \A i \in 1..n : call.contexts[i].similarity_score <= s
           IN  call.result.value =
                 IF n = 0 THEN one \div 10
                 ELSE Min2((95 * one) \div 100,
                           (7 * top) \div 10 + Min2((3 * one) \div 10, (n * one) \div 10))

\* C19: delete_index on a built index removes the index file, the id mapping
\* and the metadata together and returns true; a delete of a document that
\* has nothing left returns false, raises nothing and changes no stored state.
C19_DeleteRemovesAllThenReportsNothing ==
    [][\A t \in Tasks :
          (Started(t) /\ tasks'[t].op = "delete_index")
              => LET d == tasks'[t].doc
                 IN  /\ tasks'[t].result.ok
                     /\ ~Exists(index_files'[d])
                     /\ ~Exists(mapping_files'[d])
                     /\ ~Exists(metadata_files'[d])
                     /\ (Exists(index_files[d]) /\ Exists(mapping_files[d])
                            /\ Exists(metadata_files[d]))
                           => tasks'[t].result.value = TRUE
                     /\ (HasNoIndex(d) /\ metadata_cache[d] = NotCached)
                           => /\ tasks'[t].result.value = FALSE
                              /\ UNCHANGED storeVars]_vars

\* a document's index was deleted and then deleted once more
C19_Witness ==
    \E t1, t2 \in Tasks :
        /\ tasks[t1].op = "delete_index" /\ tasks[t1].result = Ok(TRUE)
        /\ tasks[t2].op = "delete_index" /\ tasks[t2].result = Ok(FALSE)
        /\ tasks[t1].doc = tasks[t2].doc
        /\ tasks[t1].id < tasks[t2].id
        /\ HasNoIndex(tasks[t1].doc)

\* C20: an answer_question call, whether it succeeds or fails at any step,
\* leaves every persisted store as it was: the chunk store, the vector
\* indexes and the stored embeddings.
C20_AnswerLeavesStoresUnchanged ==
    [][pipeline.pc # "none" =>
          UNCHANGED <<index_files, mapping_files, metadata_files, chunks_files,
                      chunk_metadata_files, embedding_files>>]_vars

\* C21: _split_into_chunks terminates for every text, every chunk_size >= 1
\* and every chunk_overlap >= 0, also when the overlap is as large as the
\* window: each pass of the loop moves the window start forward, and the
\* function returns.
C21_WindowStartAdvancesUntilReturn ==
    /\ [][call'.fn = "split_into_chunks" => call'.current_pos > call.current_pos]_vars
    /\ <>(call.fn = "returned")

\* the loop returned after several passes with an overlap that covers the
\* whole window
C21_Witness ==
    /\ call.fn = "returned"
    /\ call.chunk_overlap >= call.chunk_size
    /\ Len(call.result.value) >= 2
    /\ call.result.value = split_into_chunks(call.text, call.chunk_size, call.chunk_overlap,
                                             call.separators)

\* the cut the separator rule asks for in the window start_pos..end_pos: the
\* end of the last occurrence, after the window start, of the first separator
\* in priority order that occurs in the window; end_pos if none occurs
RECURSIVE SeparatorCut(_, _, _, _)
SeparatorCut(text, start_pos, end_pos, separators) ==
    IF separators = <<>> \/ Head(separators) = <<>> THEN end_pos
    ELSE LET separator == Head(separators)
             found == {p \in (start_pos + 1)..(end_pos - Len(separator)) :
                          SubSeq(text, p + 1, p + Len(separator)) = separator}
         IN  IF found # {}
               THEN (CHOOSE p \in found : \A o \in found : o <= p) + Len(separator)
             ELSE SeparatorCut(text, start_pos, end_pos, Tail(separators))

\* C22: a window that ends before the end of the text is cut at the end of
\* the last occurrence, after the window start, of the highest-priority
\* separator occurring in it, and at the window boundary only if none occurs.
C22_CutAtLastSeparatorInWindow ==
    \A k \in 1..Len(call.chunks) :
        LET c == call.chunks[k]
            end_pos == Min2(c.start_position + call.chunk_size, Len(call.text))
        IN  end_pos < Len(call.text)
              => c.end_position = SeparatorCut(call.text, c.start_position, end_pos,
                                               call.separators)

\* C23: a build that asks for the clustered index kind with fewer vectors
\* than the configured nlist writes an exhaustive (Flat) index.
C23_FewVectorsFallBackToFlat ==
    [][\A t \in Tasks :
          (/\ Started(t)
           /\ tasks'[t].op = "create_index"
           /\ tasks'[t].pc = "open_mapping"
           /\ tasks'[t].req.config.index_type = "IVFFlat"
           /\ Len(tasks'[t].req.vectors) < tasks'[t].req.config.nlist)
              => index_files'[tasks'[t].doc].data.kind = "Flat"]_vars

\* C24: search_vectors treats the query as the build treated the stored
\* vectors: each reported score is the score of the stored row against the
\* query normalized to unit length if the index was built with
\* normalize_vectors, and against the query as given otherwise.
C24_QueryNormalizedAsBuild ==
    (call.fn = "self_search" /\ call.result.ok)
        => \A k \in 1..Len(call.result.value) :
              LET hit == call.result.value[k]
                  slot == CHOOSE i \in 1..Len(call.req.chunk_ids) :
                             call.req.chunk_ids[i] = hit.chunk_id
                  given == call.req.vectors[call.slot]
                  q == IF call.req.config.normalize_vectors THEN normalize_L2(given)
                       ELSE given
              IN  hit.similarity_score = Score(BuiltIndex(call.req), q, slot)

\* C25: whenever no call is running, the index cache holds an entry for a
\* document only if the document's index file exists, and the cached index
\* is the one that file holds (the one built last).
C25_CacheMatchesDisk ==
    (\A t \in Tasks : ~InProgress(t))
        => \A d \in Docs :
              index_cache[d] # NotCached => index_files[d] = Written(index_cache[d].data)

\* C26: whenever no call is running, list_indexes reports a document only if
\* its complete artifact set (index file, id mapping, metadata) is on disk.
C26_ListingSkipsPartialSets ==
    (\A t \in Tasks : ~InProgress(t))
        => \A d \in ListedDocs :
              /\ index_files[d].state = "written"
              /\ mapping_files[d].state = "written"

\* C27: in the list split_text returns, chunk_index is the position among
\* the returned chunks: 0, 1, ..., n-1 in output order, dropped chunks not
\* counted.
C27_ChunkIndexIsOutputPosition ==
    call.fn = "split_text"
        => \A k \in 1..Len(call.result.value) : call.result.value[k].chunk_index = k - 1

\* C28: the chunks _split_into_chunks produces have strictly increasing end
\* offsets: after a window has reached the end of the text no further chunk
\* follows, so no chunk lies within the range of an earlier one.
C28_EndOffsetsStrictlyIncrease ==
    call.fn \in {"split_into_chunks", "returned"}
        => \A k \in 1..(Len(call.chunks) - 1) :
              call.chunks[k].end_position < call.chunks[k + 1].end_position

\* C29: split_text_into_chunks terminates for every text and every
\* chunk_size > chunk_overlap >= 0: its start cursor is never negative, grows
\* with every pass of the loop, and the function returns.
C29_AltChunkerStartAdvancesUntilReturn ==
    /\ [][(call.fn = "split_text_into_chunks" /\ call'.start # call.start)
             => (call'.start > call.start /\ call'.start >= 0)]_vars
    /\ <>(call.fn = "returned")

\* the place of a collaborator in the order of answer_question
CallRank(name) ==
    CASE name = "embed" -> 1 [] name = "search" -> 2 [] name = "fetch" -> 3
      [] name = "generate" -> 4

\* the collaborators were called in the fixed order, none of them twice
CallsInOrder(calls) ==
    \A i, j \in DOMAIN calls : i < j => CallRank(calls[i]) < CallRank(calls[j])

Called(name) == \E i \in DOMAIN pipeline.calls : pipeline.calls[i] = name

TimesCalled(name) == Cardinality({i \in DOMAIN pipeline.calls : pipeline.calls[i] = name})

\* the call ended in an error raised by the collaborator called last
FailedAt(name) ==
    /\ pipeline.pc = "done"
    /\ ~pipeline.result.ok
    /\ pipeline.calls # <<>>
    /\ pipeline.calls[Len(pipeline.calls)] = name

EmbedSucceeded == Called("embed") /\ pipeline.question_embedding # <<>>

SearchSucceeded == Called("search") /\ ~FailedAt("search")

\* what C30 says of every answer call but the number of generate calls
C30_OrderOfCalls ==
    /\ CallsInOrder(pipeline.calls)
    /\ Called("search") => EmbedSucceeded
    /\ Called("fetch") => SearchSucceeded /\ SearchResponse(pipeline).results # <<>>
    /\ Called("generate") /\ pipeline.contexts_with_content = <<>>
          => pipeline.context_text = NoContextText

\* C30 as stated: the collaborators are called in the order embed, search,
\* chunk fetch, generate, each at most once; no search after a failed embed; a
\* chunk fetch only when the search returned a result; and generate exactly
\* once whenever embed and search succeeded, with the placeholder as context
\* when no chunk resolved to content.
C30_GenerateOnceAfterEmbedAndSearch ==
    /\ C30_OrderOfCalls
    /\ pipeline.pc = "done" /\ EmbedSucceeded /\ SearchSucceeded
          => TimesCalled("generate") = 1

\* C30, amended: as above, but generate is called exactly once whenever embed
\* and search succeeded and the chunk fetch, if one was made, reached the text
\* processing service; a chunk fetch that cannot connect ends the call with
\* an error and without a generate call.
C30_GenerateOnceUnlessFetchFails ==
    /\ C30_OrderOfCalls
    /\ pipeline.pc = "done" /\ EmbedSucceeded /\ SearchSucceeded /\ ~FailedAt("fetch")
          => TimesCalled("generate") = 1
    /\ FailedAt("fetch")
          => /\ ~Called("generate")
             /\ pipeline.result = AnswerError("text_processing_service")

\* an answer call that made all four calls and gave the placeholder to the LLM
C30_Witness ==
    /\ pipeline.pc = "done"
    /\ pipeline.result.ok
    /\ pipeline.calls = <<"embed", "search", "fetch", "generate">>
    /\ pipeline.contexts_with_content = <<>>
    /\ pipeline.context_text = NoContextText

=============================================================================
